---------------------------- MODULE Spec2Model ----------------------------
(***************************************************************************)
(* A model of the Wordle solver of src/src/main.py: the feedback           *)
(* evaluator (get_feedback), the candidate filter (filter_words), the      *)
(* partitioner (calculate_partitions), the guess selector                  *)
(* (choose_best_word, find_best_distinguishing_word) and the two game      *)
(* loops (play_interactive_wordle, solve_wordle_auto).                     *)
(*                                                                         *)
(* Representation.  A Python str of letters is a tuple of one-character    *)
(* strings ("COURT" is <<"C","O","U","R","T">>); a feedback string is a    *)
(* tuple over "G", "Y", "B".  A Python list is a sequence, a set is a set, *)
(* a dict is a function on its keys.  None is the empty tuple, and a       *)
(* raised exception is a one-element tuple naming it, so that every value  *)
(* a call can produce is comparable with a word.  The heuristic scores are *)
(* Python floats; the model computes them as exact rationals.              *)
(***************************************************************************)
EXTENDS Integers, Sequences, FiniteSets, TLC

VARIABLES
    mode,             \* which entry point runs: "auto", "interactive", or a harness of one function
    pc,               \* position of the running entry point
    words,            \* the dictionary (words / word_list / all_words)
    target_word,      \* the secret word (known to the program only in automatic mode)
    possible_words,   \* the candidate set
    known_letters,    \* letters seen Green or Yellow
    excluded_letters, \* letters seen Black while not known
    turn,             \* the loop variable of `for turn in range(1, 7)`
    guesses,          \* the guesses made so far
    suggestion,       \* the last value choose_best_word returned (guess / suggestion)
    feedback,         \* the last feedback computed or entered
    partitions,       \* the last mapping calculate_partitions returned
    result            \* what the entry point returned or raised

vars == <<mode, pc, words, target_word, possible_words, known_letters,
          excluded_letters, turn, guesses, suggestion, feedback, partitions, result>>

-----------------------------------------------------------------------------
(* Values *)

WordLen == 5

\* Thresholds and caps of the selector.
SMALL_SET_THRESHOLD == 2
MEDIUM_SET_THRESHOLD == 6
ELIMINATION_THRESHOLD == 15
LATE_GAME_TURN == 5
DistinguishThreshold == 10
AnswersToo == 3
DistinguishPrefix == 500
TwoWordPrefix == 300
EliminationPrefix == 800
MediumPrefix == 600
EliminationMinPool == 50
EliminationCap == 150
MediumCap == 100
EliminationMinUnexplored == 3
MediumMinUnexplored == 2
MaxTurns == 6

\* Python's None.
None == <<>>

\* Exceptions a call can raise, as values.
IndexError == <<"IndexError">>
TypeError == <<"TypeError">>

\* The value list(target) / list(guess) hold after `... = None`.
NoneChar == "None"

Alphabet ==
    <<"A","B","C","D","E","F","G","H","I","J","K","L","M",
      "N","O","P","Q","R","S","T","U","V","W","X","Y","Z">>

\* The code point order of upper-case letters, as Python compares str.
Ord(c) == CHOOSE i \in 1..Len(Alphabet) : Alphabet[i] = c

Range(s) == {s[i] : i \in DOMAIN s}

IsWord(w) == Len(w) = WordLen /\ \A i \in 1..WordLen : w[i] \in Range(Alphabet)

AllGreen == <<"G","G","G","G","G">>

Patterns == [1..WordLen -> {"G","Y","B"}]

Min(a, b) == IF a <= b THEN a ELSE b

\* list.index(x): the first position holding x.
Index(s, x) == CHOOSE i \in DOMAIN s : s[i] = x /\ \A j \in 1..(i-1) : s[j] # x

\* s[:n]
Prefix(s, n) == SubSeq(s, 1, Min(n, Len(s)))

\* x in list
In(x, s) == \E i \in DOMAIN s : s[i] = x

-----------------------------------------------------------------------------
(* get_feedback *)

\* First pass (main.py 20-24): mark greens, blank them in both copies.
FirstPass(guess, target) ==
    [fb |-> [i \in 1..WordLen |-> IF guess[i] = target[i] THEN "G" ELSE "B"],
     target_chars |-> [i \in 1..WordLen |-> IF guess[i] = target[i] THEN NoneChar ELSE target[i]],
     guess_chars |-> [i \in 1..WordLen |-> IF guess[i] = target[i] THEN NoneChar ELSE guess[i]]]

\* Second pass, position i onwards (main.py 27-30): a letter still present in
\* target_chars becomes Yellow and its first remaining instance is consumed.
RECURSIVE SecondPass(_, _, _, _)
SecondPass(i, fb, target_chars, guess_chars) ==
    IF i > WordLen THEN fb
    ELSE IF guess_chars[i] # NoneChar /\ In(guess_chars[i], target_chars)
         THEN SecondPass(i + 1,
                         [fb EXCEPT ![i] = "Y"],
                         [target_chars EXCEPT ![Index(target_chars, guess_chars[i])] = NoneChar],
                         guess_chars)
         ELSE SecondPass(i + 1, fb, target_chars, guess_chars)

\* A feedback whose second pass never consumes the target's letter: every
\* non-green occurrence of a letter the target still holds is marked Yellow.
get_feedback_noconsume(guess, target) ==
    LET p == FirstPass(guess, target)
    IN  [j \in 1..WordLen |->
            IF p.guess_chars[j] # NoneChar /\ In(p.guess_chars[j], p.target_chars)
            THEN "Y" ELSE p.fb[j]]

get_feedback(guess, target) ==
    LET p == FirstPass(guess, target)
    IN  SecondPass(1, p.fb, p.target_chars, p.guess_chars)

-----------------------------------------------------------------------------
(* filter_words, calculate_partitions *)

\* The loop of filter_words from word i on (main.py 38-40).
RECURSIVE FilterLoop(_, _, _, _, _)
FilterLoop(i, ws, guess, fb, valid_words) ==
    IF i > Len(ws) THEN valid_words
    ELSE FilterLoop(i + 1, ws, guess, fb,
                    IF get_feedback(guess, ws[i]) = fb
                    THEN Append(valid_words, ws[i])
                    ELSE valid_words)

\* A filter that keeps the words the feedback rules out.
filter_words_inverted(ws, guess, fb) ==
    SelectSeq(ws, LAMBDA w : get_feedback(guess, w) # fb)

\* A filter that compares the candidate with the guess the wrong way round.
filter_words_swapped(ws, guess, fb) ==
    SelectSeq(ws, LAMBDA w : get_feedback(w, guess) = fb)

filter_words(ws, guess, fb) == FilterLoop(1, ws, guess, fb, <<>>)

\* partitions[fb].append(word) on a defaultdict(list).
AppendTo(parts, key, word) ==
    IF key \in DOMAIN parts
    THEN [parts EXCEPT ![key] = Append(@, word)]
    ELSE [k \in DOMAIN parts \cup {key} |-> IF k = key THEN <<word>> ELSE parts[k]]

\* The empty dict.
EmptyDict == [k \in {} |-> <<>>]

\* The loop of calculate_partitions from word i on (main.py 48-50).
RECURSIVE PartitionLoop(_, _, _, _)
PartitionLoop(i, guess, possible, parts) ==
    IF i > Len(possible) THEN parts
    ELSE PartitionLoop(i + 1, guess, possible,
                       AppendTo(parts, get_feedback(guess, possible[i]), possible[i]))

\* A partitioner that skips the first candidate.
calculate_partitions_short(guess, possible) ==
    PartitionLoop(2, guess, possible, EmptyDict)

calculate_partitions(guess, possible) == PartitionLoop(1, guess, possible, EmptyDict)

-----------------------------------------------------------------------------
(* Scores.  A score is the rational num/den with den > 0. *)

ScoreLess(a, b) == a.num * b.den < b.num * a.den
ScoreEq(a, b) == a.num * b.den = b.num * a.den

\* max(partition_sizes) if partition_sizes else 0
MaxSize(parts) ==
    IF DOMAIN parts = {} THEN 0
    ELSE CHOOSE m \in {Len(parts[k]) : k \in DOMAIN parts} :
            \A k \in DOMAIN parts : Len(parts[k]) <= m

\* sum(partition_sizes)
RECURSIVE SumSizes(_, _)
SumSizes(parts, keys) ==
    IF keys = {} THEN 0
    ELSE LET k == CHOOSE x \in keys : TRUE
         IN  Len(parts[k]) + SumSizes(parts, keys \ {k})

\* base + avg_remaining / 1000 + tenths / 10, where avg_remaining is
\* sum(partition_sizes) / len(partition_sizes), or 0 for no partition.
MakeScore(parts, tenths) ==
    LET k == Cardinality(DOMAIN parts)
        d == IF k = 0 THEN 1 ELSE k
    IN  [num |-> 1000 * d * MaxSize(parts) + SumSizes(parts, DOMAIN parts) + 100 * d * tenths,
         den |-> 1000 * d]

\* Python's < on str of equal length.
RECURSIVE WordLessFrom(_, _, _)
WordLessFrom(i, a, b) ==
    IF i > Len(a) \/ i > Len(b) THEN Len(a) < Len(b)
    ELSE IF a[i] = b[i] THEN WordLessFrom(i + 1, a, b)
    ELSE Ord(a[i]) < Ord(b[i])

WordLess(a, b) == WordLessFrom(1, a, b)

\* set(word) - known_letters - excluded_letters
Unexplored(word, known, excluded) == (Range(word) \ known) \ excluded

-----------------------------------------------------------------------------
(* find_best_distinguishing_word *)

\* The evaluation pool (main.py 103-112).
DistinguishingPool(possible, all_words) ==
    LET outside == SelectSeq(Prefix(all_words, DistinguishPrefix), LAMBDA w : ~In(w, possible))
    IN  IF Len(possible) <= AnswersToo THEN outside \o possible ELSE outside

\* score of main.py 138.
DistinguishingScore(word, possible, known, excluded) ==
    MakeScore(calculate_partitions(word, possible),
              5 * Cardinality(Range(word) \cap excluded)
                - Cardinality(Unexplored(word, known, excluded)))

\* The loop of main.py 116-142 from pool word i on: a strictly lower score
\* replaces the best so far (best = None stands for best_score = inf).
RECURSIVE DistinguishingLoop(_, _, _, _, _, _)
DistinguishingLoop(i, pool, possible, known, excluded, best) ==
    IF i > Len(pool) THEN best
    ELSE LET s == DistinguishingScore(pool[i], possible, known, excluded)
         IN  DistinguishingLoop(i + 1, pool, possible, known, excluded,
                 IF best = None \/ ScoreLess(s, DistinguishingScore(best, possible, known, excluded))
                 THEN pool[i] ELSE best)

find_best_distinguishing_word(possible, all_words, known, excluded) ==
    IF Len(possible) <= 1
    THEN (IF possible # <<>> THEN possible[1] ELSE None)
    ELSE LET best_word == DistinguishingLoop(1, DistinguishingPool(possible, all_words),
                                             possible, known, excluded, None)
         IN  IF best_word # None THEN best_word ELSE possible[1]

-----------------------------------------------------------------------------
(* choose_best_word *)

COURT == <<"C","O","U","R","T">>
ADIEU == <<"A","D","I","E","U">>

\* get_letter_frequencies(words)[char]: the number of words holding char.
letter_freq(possible, char) ==
    Cardinality({i \in DOMAIN possible : char \in Range(possible[i])})

\* sum(letter_freq[char] for char in set(word))
RECURSIVE SumFreq(_, _)
SumFreq(possible, letters) ==
    IF letters = {} THEN 0
    ELSE LET c == CHOOSE x \in letters : TRUE
         IN  letter_freq(possible, c) + SumFreq(possible, letters \ {c})

score_word_frequency(word, possible) == SumFreq(possible, Range(word))

\* The two-word branch (main.py 210-258), which follows the small-set return.
TwoWordScore(word, known, excluded, diff_letters) ==
    0 - Cardinality(Unexplored(word, known, excluded))
      - Cardinality(Range(word) \cap diff_letters)

RECURSIVE TwoWordLoop(_, _, _, _, _, _, _)
TwoWordLoop(i, pool, possible, known, excluded, diff_letters, best) ==
    IF i > Len(pool) THEN best
    ELSE LET w == pool[i]
             ok == /\ ~In(w, possible)
                   /\ get_feedback(w, possible[1]) # get_feedback(w, possible[2])
         IN  TwoWordLoop(i + 1, pool, possible, known, excluded, diff_letters,
                 IF ok /\ (best = None \/ TwoWordScore(w, known, excluded, diff_letters)
                                            < TwoWordScore(best, known, excluded, diff_letters))
                 THEN w ELSE best)

TwoWordBranch(possible, all_words, known, excluded) ==
    LET word1 == possible[1]
        word2 == possible[2]
        diff_positions == {i \in 1..WordLen : word1[i] # word2[i]}
        diff_letters == {word1[i] : i \in diff_positions} \cup {word2[i] : i \in diff_positions}
        best == IF diff_positions # {}
                THEN TwoWordLoop(1, Prefix(all_words, TwoWordPrefix), possible,
                                 known, excluded, diff_letters, None)
                ELSE None
    IN  IF best # None THEN best ELSE possible[1]

\* evaluation_set above ELIMINATION_THRESHOLD (main.py 267-288).
EliminationPool(possible, all_words, known, excluded) ==
    LET scanned == Prefix(all_words, EliminationPrefix)
        first == SelectSeq(scanned, LAMBDA w :
                     /\ ~In(w, possible)
                     /\ Range(w) \cap excluded = {}
                     /\ Cardinality(Unexplored(w, known, excluded)) >= EliminationMinUnexplored)
        more == SelectSeq(scanned, LAMBDA w :
                     /\ ~In(w, possible)
                     /\ score_word_frequency(w, possible) > 0)
    IN  Prefix(IF Len(first) < EliminationMinPool THEN first \o more ELSE first,
               EliminationCap)

\* (count, word) pairs in the order of list.sort(reverse=True).
PairGreater(a, b) ==
    \/ a[1] > b[1]
    \/ a[1] = b[1] /\ WordLess(b[2], a[2])

RECURSIVE SortedDescending(_)
SortedDescending(pairs) ==
    IF pairs = {} THEN <<>>
    ELSE LET top == CHOOSE x \in pairs : \A y \in pairs \ {x} : PairGreater(x, y)
         IN  <<top>> \o SortedDescending(pairs \ {top})

\* A medium pool that leaves out the test `word not in possible_words`.
MediumPool_with_answers(possible, all_words, known, excluded) ==
    LET scanned == Prefix(all_words, MediumPrefix)
        elimination_words ==
            {<<Cardinality(Unexplored(scanned[i], known, excluded)), scanned[i]>> :
                i \in {j \in DOMAIN scanned :
                         Cardinality(Unexplored(scanned[j], known, excluded))
                               >= MediumMinUnexplored}}
        sorted == Prefix(SortedDescending(elimination_words), MediumCap)
    IN  [i \in DOMAIN sorted |-> sorted[i][2]]

\* evaluation_set between MEDIUM_SET_THRESHOLD and ELIMINATION_THRESHOLD
\* (main.py 292-302).
MediumPool(possible, all_words, known, excluded) ==
    LET scanned == Prefix(all_words, MediumPrefix)
        elimination_words ==
            {<<Cardinality(Unexplored(scanned[i], known, excluded)), scanned[i]>> :
                i \in {j \in DOMAIN scanned :
                         /\ ~In(scanned[j], possible)
                         /\ Cardinality(Unexplored(scanned[j], known, excluded))
                               >= MediumMinUnexplored}}
        sorted == Prefix(SortedDescending(elimination_words), MediumCap)
    IN  [i \in DOMAIN sorted |-> sorted[i][2]]

\* final_score of main.py 311-340.
\* answer_bonus of the scoring loop (main.py 328-336), in tenths.
answer_bonus(word, possible, t) ==
    LET words_remaining == Len(possible)
        is_possible_answer == In(word, possible)
    IN  IF is_possible_answer
        THEN (IF words_remaining <= SMALL_SET_THRESHOLD \/ t >= LATE_GAME_TURN
              THEN -10 ELSE 20)
        ELSE (IF words_remaining > MEDIUM_SET_THRESHOLD THEN -5 ELSE 0)

FinalScore(word, possible, known, excluded, t) ==
    LET words_remaining == Len(possible)
        is_possible_answer == In(word, possible)
        unexplored == Cardinality(Unexplored(word, known, excluded))
        known_letters_in_word == Cardinality(Range(word) \cap known)
        exploration_bonus ==
            IF ~is_possible_answer /\ words_remaining > MEDIUM_SET_THRESHOLD
            THEN 3 * known_letters_in_word - 5 * unexplored
            ELSE 0
    IN  MakeScore(calculate_partitions(word, possible),
                  answer_bonus(word, possible, t) + exploration_bonus)

\* A scoring loop that keeps the first word of the least score, as the loop
\* of find_best_distinguishing_word does, from pool word i on.
RECURSIVE FirstLeastLoop(_, _, _, _, _, _, _)
FirstLeastLoop(i, evaluation_set, possible, known, excluded, t, best) ==
    IF i > Len(evaluation_set) THEN best
    ELSE FirstLeastLoop(i + 1, evaluation_set, possible, known, excluded, t,
            IF best = None \/ ScoreLess(FinalScore(evaluation_set[i], possible, known, excluded, t),
                                        FinalScore(best, possible, known, excluded, t))
            THEN evaluation_set[i] ELSE best)

BestScored_first_wins(evaluation_set, possible, known, excluded, t) ==
    IF evaluation_set = <<>> THEN IndexError
    ELSE FirstLeastLoop(1, evaluation_set, possible, known, excluded, t, None)

\* candidates.sort(); candidates[0][1] (main.py 345, 357): the least
\* (final_score, word, ...) tuple; indexing the empty list raises IndexError.
BestScored(evaluation_set, possible, known, excluded, t) ==
    IF evaluation_set = <<>> THEN IndexError
    ELSE CHOOSE w \in Range(evaluation_set) :
            \A v \in Range(evaluation_set) \ {w} :
                LET sw == FinalScore(w, possible, known, excluded, t)
                    sv == FinalScore(v, possible, known, excluded, t)
                IN  ScoreLess(sw, sv) \/ (ScoreEq(sw, sv) /\ WordLess(w, v))

\* The opening move (main.py 189-202).
OpeningMove(all_words) == IF In(COURT, all_words) THEN COURT ELSE ADIEU

\* choose_best_word past the opening move (main.py 204-363).
AfterOpening(possible, all_words, t, known, excluded) ==
    LET words_remaining == Len(possible)
    IN  IF words_remaining <= DistinguishThreshold
             THEN find_best_distinguishing_word(possible, all_words, known, excluded)
        ELSE IF words_remaining = 2
             THEN TwoWordBranch(possible, all_words, known, excluded)
        ELSE IF words_remaining > ELIMINATION_THRESHOLD
             THEN BestScored(EliminationPool(possible, all_words, known, excluded),
                             possible, known, excluded, t)
        ELSE IF words_remaining > MEDIUM_SET_THRESHOLD
             THEN BestScored(MediumPool(possible, all_words, known, excluded),
                             possible, known, excluded, t)
        ELSE find_best_distinguishing_word(possible, all_words, known, excluded)

\* A selector that applies the opening move before the single-candidate return.
choose_best_word_opener_first(possible, all_words, t, known, excluded) ==
    IF t = 1 THEN OpeningMove(all_words)
    ELSE IF Len(possible) = 1 THEN possible[1]
    ELSE AfterOpening(possible, all_words, t, known, excluded)

\* A selector whose first test is `<= SMALL_SET_THRESHOLD` instead of `== 1`.
choose_best_word_small_first(possible, all_words, t, known, excluded) ==
    IF Len(possible) >= 1 /\ Len(possible) <= SMALL_SET_THRESHOLD THEN possible[1]
    ELSE IF t = 1 THEN OpeningMove(all_words)
    ELSE AfterOpening(possible, all_words, t, known, excluded)

choose_best_word(possible, all_words, t, known, excluded) ==
    IF Len(possible) = 1 THEN possible[1]
    ELSE IF t = 1 THEN OpeningMove(all_words)
    ELSE AfterOpening(possible, all_words, t, known, excluded)

-----------------------------------------------------------------------------
(* Inputs.  The program reads its dictionary from a file (load_words keeps    *)
(* the lines of five characters) and, when the file is missing, uses the      *)
(* built-in list of main.py 440.  The model runs on the dictionaries below.   *)

\* The built-in list of play_interactive_wordle.
FallbackWords ==
    <<
      <<"A","D","I","E","U">>, <<"A","U","D","I","O">>, <<"A","R","O","S","E">>,
      <<"I","R","A","T","E">>, <<"S","T","A","R","E">>, <<"S","L","A","T","E">>,
      <<"C","O","U","R","T">>
    >>

\* Twelve words sharing no letter with ADIEU, and no COURT.
NoOpenerWords ==
    <<
      <<"L","O","F","T","Y">>, <<"M","O","S","S","Y">>, <<"H","O","L","L","Y">>,
      <<"J","O","L","L","Y">>, <<"F","O","L","L","Y">>, <<"L","O","R","R","Y">>,
      <<"S","O","R","R","Y">>, <<"W","O","R","R","Y">>, <<"M","O","N","T","H">>,
      <<"N","O","R","T","H">>, <<"F","O","R","T","H">>, <<"N","O","T","C","H">>
    >>

\* COURT, four more words sharing letters with it, sixteen sharing none.
MixedWords ==
    <<
      <<"S","T","A","R","E">>, <<"S","L","A","T","E">>, <<"S","K","I","L","L">>,
      <<"S","P","I","L","L">>, <<"S","H","E","L","L">>, <<"S","M","E","L","L">>,
      <<"S","P","E","L","L">>, <<"S","W","E","L","L">>, <<"D","W","E","L","L">>,
      <<"K","N","E","L","L">>, <<"C","O","U","R","T">>, <<"A","R","O","S","E">>,
      <<"S","H","A","L","L">>, <<"S","M","A","L","L">>, <<"S","P","A","N","K">>,
      <<"B","L","A","N","D">>, <<"B","L","A","N","K">>, <<"P","L","A","N","K">>,
      <<"F","L","A","N","K">>, <<"S","L","A","N","G">>, <<"I","R","A","T","E">>
    >>

\* Sixteen words sharing no letter with COURT, then COURT.
DisjointWords ==
    <<
      <<"S","K","I","L","L">>, <<"S","P","I","L","L">>, <<"S","H","E","L","L">>,
      <<"S","M","E","L","L">>, <<"S","P","E","L","L">>, <<"S","W","E","L","L">>,
      <<"D","W","E","L","L">>, <<"K","N","E","L","L">>, <<"S","H","A","L","L">>,
      <<"S","M","A","L","L">>, <<"S","P","A","N","K">>, <<"B","L","A","N","D">>,
      <<"B","L","A","N","K">>, <<"P","L","A","N","K">>, <<"F","L","A","N","K">>,
      <<"S","L","A","N","G">>, <<"C","O","U","R","T">>
    >>

\* Ten words differing in their first letter only, then COURT.
RhymeWords ==
    <<
      <<"L","I","G","H","T">>, <<"M","I","G","H","T">>, <<"N","I","G","H","T">>,
      <<"S","I","G","H","T">>, <<"T","I","G","H","T">>, <<"F","I","G","H","T">>,
      <<"E","I","G","H","T">>, <<"W","I","G","H","T">>, <<"B","I","G","H","T">>,
      <<"R","I","G","H","T">>, <<"C","O","U","R","T">>
    >>

\* Words with repeated letters.
RepeatWords ==
    <<
      <<"S","P","E","E","D">>, <<"E","R","A","S","E">>, <<"A","R","I","S","E">>,
      <<"R","A","I","S","E">>, <<"E","E","R","I","E">>, <<"G","E","E","S","E">>,
      <<"C","O","U","R","T">>, <<"T","R","O","U","T">>
    >>

\* Five words of NoOpenerWords' kind: after ADIEU the Distinguishing Search has
\* an empty pool and guesses HOLLY, whose two L's meet the single L of COYLY.
DoubleWords ==
    <<
      <<"H","O","L","L","Y">>, <<"C","O","Y","L","Y">>, <<"J","O","L","L","Y">>,
      <<"F","O","L","L","Y">>, <<"L","O","F","T","Y">>
    >>

AllDictionaries ==
    <<FallbackWords, NoOpenerWords, MixedWords, DisjointWords, RhymeWords, DoubleWords,
      RepeatWords>>

\* The number of dictionaries the model runs on.
NumDicts == 6

Dictionaries == {AllDictionaries[i] : i \in 1..Min(NumDicts, Len(AllDictionaries))}

\* Secret words: every word of every dictionary, so that for each dictionary
\* some secrets are in it and some are not.
Targets == UNION {Range(d) : d \in Dictionaries}

\* Feedback a player may enter that is not the true one.
MistypedFeedback == {AllGreen, <<"B","B","B","B","B">>, <<"Y","B","B","B","G">>}

Running == [outcome |-> "running", value |-> 0]

-----------------------------------------------------------------------------
(* The knowledge update of the two game loops (main.py 499-508, 576-583):  *)
(* position by position, Green or Yellow adds the letter to known_letters, *)
(* Black adds it to excluded_letters unless it is already known.           *)

RECURSIVE UpdateKnowledge(_, _, _, _)
UpdateKnowledge(i, guess, fb, k) ==
    IF i > WordLen THEN k
    ELSE UpdateKnowledge(i + 1, guess, fb,
            IF fb[i] \in {"G", "Y"}
            THEN [k EXCEPT !.known = @ \cup {guess[i]}]
            ELSE IF guess[i] \notin k.known
                 THEN [k EXCEPT !.excluded = @ \cup {guess[i]}]
                 ELSE k)

-----------------------------------------------------------------------------
(* solve_wordle_auto (main.py 558-596) *)

InitAuto ==
    /\ mode = "auto"
    /\ pc = "loop"
    /\ words \in Dictionaries
    /\ target_word \in Targets
    /\ possible_words = words
    /\ known_letters = {}
    /\ excluded_letters = {}
    /\ turn = 1
    /\ guesses = <<>>
    /\ suggestion = None
    /\ feedback = None
    /\ partitions = EmptyDict
    /\ result = Running

\* One iteration of `for turn in range(1, 7)`, and the return that follows the
\* last one.
AutoTurn ==
    /\ mode = "auto"
    /\ pc = "loop"
    /\ LET guess == choose_best_word(possible_words, words, turn, known_letters, excluded_letters)
       IN  /\ suggestion' = guess
           /\ IF guess = IndexError
              THEN \* candidates[0] on an empty list, inside choose_best_word
                   /\ pc' = "done"
                   /\ result' = [outcome |-> "IndexError", value |-> turn]
                   /\ UNCHANGED <<possible_words, known_letters, excluded_letters,
                                  turn, guesses, feedback>>
              ELSE IF guess = None
              THEN \* guesses.append(None); list(None) inside get_feedback
                   /\ pc' = "done"
                   /\ guesses' = Append(guesses, guess)
                   /\ result' = [outcome |-> "TypeError", value |-> turn]
                   /\ UNCHANGED <<possible_words, known_letters, excluded_letters,
                                  turn, feedback>>
              ELSE LET fb == get_feedback(guess, target_word)
                       k == UpdateKnowledge(1, guess, fb,
                                [known |-> known_letters, excluded |-> excluded_letters])
                   IN  /\ guesses' = Append(guesses, guess)
                       /\ feedback' = fb
                       /\ known_letters' = k.known
                       /\ excluded_letters' = k.excluded
                       /\ IF fb = AllGreen
                          THEN /\ pc' = "done"
                               /\ result' = [outcome |-> "solved", value |-> turn]
                               /\ UNCHANGED <<possible_words, turn>>
                          ELSE /\ possible_words' = filter_words(possible_words, guess, fb)
                               /\ IF turn < MaxTurns
                                  THEN /\ turn' = turn + 1
                                       /\ UNCHANGED <<pc, result>>
                                  ELSE /\ pc' = "done"
                                       /\ result' = [outcome |-> "failed", value |-> MaxTurns + 1]
                                       /\ UNCHANGED turn
    /\ UNCHANGED <<mode, words, target_word, partitions>>

-----------------------------------------------------------------------------
(* play_interactive_wordle (main.py 415-534).  The player holds the secret *)
(* word and types the feedback: the true one, a mistyped one, or quit.     *)

InitInteractive ==
    /\ mode = "interactive"
    /\ pc = "loop"
    /\ words \in Dictionaries
    /\ target_word \in Targets
    /\ possible_words = words
    /\ known_letters = {}
    /\ excluded_letters = {}
    /\ turn = 1
    /\ guesses = <<>>
    /\ suggestion = None
    /\ feedback = None
    /\ partitions = EmptyDict
    /\ result = Running

\* The iteration up to the prompt: the suggestion, then the player quits.
InteractiveQuit ==
    /\ mode = "interactive"
    /\ pc = "loop"
    /\ LET guess == choose_best_word(possible_words, words, turn, known_letters, excluded_letters)
       IN  /\ guess # IndexError
           /\ suggestion' = guess
           /\ guesses' = Append(guesses, guess)
           /\ pc' = "done"
           /\ result' = [outcome |-> "quit", value |-> turn]
    /\ UNCHANGED <<mode, words, target_word, possible_words, known_letters,
                   excluded_letters, turn, feedback, partitions>>

\* One iteration of `for turn in range(1, 7)` with feedback entered, and the
\* report that follows the last one.
InteractiveTurn ==
    /\ mode = "interactive"
    /\ pc = "loop"
    /\ LET guess == choose_best_word(possible_words, words, turn, known_letters, excluded_letters)
       IN  /\ suggestion' = guess
           /\ IF guess = IndexError
              THEN /\ pc' = "done"
                   /\ result' = [outcome |-> "IndexError", value |-> turn]
                   /\ UNCHANGED <<possible_words, known_letters, excluded_letters,
                                  turn, guesses, feedback>>
              ELSE \E fb \in {get_feedback(guess, target_word)} \cup MistypedFeedback :
                   /\ guesses' = Append(guesses, guess)
                   /\ feedback' = fb
                   /\ IF fb = AllGreen
                      THEN /\ pc' = "done"
                           /\ result' = [outcome |-> "solved", value |-> turn]
                           /\ UNCHANGED <<possible_words, known_letters, excluded_letters, turn>>
                      ELSE LET k == UpdateKnowledge(1, guess, fb,
                                       [known |-> known_letters, excluded |-> excluded_letters])
                               remaining == filter_words(possible_words, guess, fb)
                           IN  /\ known_letters' = k.known
                               /\ excluded_letters' = k.excluded
                               /\ possible_words' = remaining
                               /\ IF Len(remaining) = 0
                                  THEN /\ pc' = "done"
                                       /\ result' = [outcome |-> "no_candidates", value |-> turn]
                                       /\ UNCHANGED turn
                                  ELSE IF turn < MaxTurns
                                  THEN /\ turn' = turn + 1
                                       /\ UNCHANGED <<pc, result>>
                                  ELSE /\ pc' = "done"
                                       /\ result' = [outcome |-> "failed", value |-> turn]
                                       /\ UNCHANGED turn
    /\ UNCHANGED <<mode, words, target_word, partitions>>

Init == InitAuto \/ InitInteractive

Next == AutoTurn \/ InteractiveTurn \/ InteractiveQuit

Spec == Init /\ [][Next]_vars

-----------------------------------------------------------------------------
(* get_feedback on its own: every guess and target over a small alphabet.  *)

\* The number of letters the words of SpecFeedback are written in.
NumLetters == 3

SmallWords == [1..WordLen -> {Alphabet[i] : i \in 1..NumLetters}]

InitFeedback ==
    /\ mode = "feedback"
    /\ pc = "start"
    /\ suggestion \in SmallWords
    /\ target_word \in SmallWords
    /\ words = <<>>
    /\ possible_words = <<>>
    /\ known_letters = {}
    /\ excluded_letters = {}
    /\ turn = 1
    /\ guesses = <<>>
    /\ feedback = None
    /\ partitions = EmptyDict
    /\ result = Running

Evaluate ==
    /\ mode = "feedback"
    /\ pc = "start"
    /\ feedback' = get_feedback(suggestion, target_word)
    /\ pc' = "done"
    /\ UNCHANGED <<mode, words, target_word, possible_words, known_letters,
                   excluded_letters, turn, guesses, suggestion, partitions, result>>

SpecFeedback == InitFeedback /\ [][Evaluate]_vars

-----------------------------------------------------------------------------
(* filter_words and calculate_partitions on their own: a guess, a secret    *)
(* and a list of distinct candidates, all drawn from one dictionary.        *)

\* The longest candidate list of SpecFilter.
MaxCands == 3

\* The number of words of a dictionary that SpecFilter draws from.
PoolSize == 4

\* The lists of distinct words of pool, up to length n.
RECURSIVE DistinctLists(_, _)
DistinctLists(pool, n) ==
    IF n = 0 THEN {<<>>}
    ELSE LET shorter == DistinctLists(pool, n - 1)
         IN  shorter \cup UNION {{Append(l, w) : w \in pool \ Range(l)} : l \in shorter}

InitFilter ==
    /\ mode = "filter"
    /\ pc = "start"
    /\ \E d \in Dictionaries :
          LET pool == Range(Prefix(d, PoolSize))
          IN  /\ words \in DistinctLists(pool, MaxCands)
              /\ suggestion \in pool
              /\ target_word \in pool
    /\ possible_words = words
    /\ known_letters = {}
    /\ excluded_letters = {}
    /\ turn = 1
    /\ guesses = <<>>
    /\ feedback = None
    /\ partitions = EmptyDict
    /\ result = Running

\* filter_words(candidates, g, get_feedback(g, t)); `words` keeps the list
\* it was given.
Filter ==
    /\ mode = "filter"
    /\ pc = "start"
    /\ feedback' = get_feedback(suggestion, target_word)
    /\ possible_words' = filter_words(possible_words, suggestion, feedback')
    /\ pc' = "filtered"
    /\ UNCHANGED <<mode, words, target_word, known_letters, excluded_letters,
                   turn, guesses, suggestion, partitions, result>>

\* calculate_partitions(g, candidates)
Partition ==
    /\ mode = "filter"
    /\ pc = "start"
    /\ partitions' = calculate_partitions(suggestion, possible_words)
    /\ pc' = "partitioned"
    /\ UNCHANGED <<mode, words, target_word, possible_words, known_letters,
                   excluded_letters, turn, guesses, suggestion, feedback, result>>

NextFilter == Filter \/ Partition

SpecFilter == InitFilter /\ [][NextFilter]_vars

\* The filter on its own together with the game loops.
InitFilterGame == InitFilter \/ Init

NextFilterGame == NextFilter \/ Next

SpecFilterGame == InitFilterGame /\ [][NextFilterGame]_vars

-----------------------------------------------------------------------------
(* choose_best_word on its own: a dictionary, a candidate set out of it, a  *)
(* turn and a knowledge state.                                              *)

\* s[n:]
Suffix(s, n) == SubSeq(s, n + 1, Len(s))

\* Candidate sets of dictionary d: its prefixes, its suffixes, and what one
\* turn of filtering leaves of it.
CandidateSets(d) ==
    {Prefix(d, n) : n \in 0..Len(d)}
      \cup {Suffix(d, n) : n \in 0..Len(d)}
      \cup {filter_words(d, g, get_feedback(g, t)) :
               g \in Range(d) \cup {COURT, ADIEU}, t \in Range(d)}

\* Letters a knowledge state of SpecSelect is made of.
KnowledgeLetters == <<"S", "L", "O", "T", "A">>

\* How many of them are used.
NumKnowledge == 1

KnowledgeSets == SUBSET {KnowledgeLetters[i] : i \in 1..Min(NumKnowledge, Len(KnowledgeLetters))}

InitSelect ==
    /\ mode = "select"
    /\ pc = "start"
    /\ words \in Dictionaries
    /\ possible_words \in CandidateSets(words)
    /\ turn \in 1..MaxTurns
    /\ known_letters \in KnowledgeSets
    /\ excluded_letters \in KnowledgeSets
    /\ target_word = None
    /\ guesses = <<>>
    /\ suggestion = None
    /\ feedback = None
    /\ partitions = EmptyDict
    /\ result = Running

Select ==
    /\ mode = "select"
    /\ pc = "start"
    /\ suggestion' = choose_best_word(possible_words, words, turn, known_letters, excluded_letters)
    /\ pc' = "done"
    /\ UNCHANGED <<mode, words, target_word, possible_words, known_letters,
                   excluded_letters, turn, guesses, feedback, partitions, result>>

SpecSelect == InitSelect /\ [][Select]_vars

-----------------------------------------------------------------------------
(* Claims *)

\* The number of positions of w holding letter c.
Count(c, w) == Cardinality({i \in DOMAIN w : w[i] = c})

\* The number of positions of guess g holding c that fb marks Green or Yellow.
Marked(c, g, fb) == Cardinality({i \in DOMAIN g : g[i] = c /\ fb[i] \in {"G", "Y"}})

\* C1: for all 5-letter words g and t and every letter L, the positions of
\* get_feedback(g, t) marked Green or Yellow that hold L in g number
\* min(count of L in g, count of L in t); and get_feedback(t, t) is all Green.
C1_FeedbackCounts ==
    (mode = "feedback" /\ pc = "done") =>
        /\ \A c \in Range(suggestion) \cup Range(target_word) :
              Marked(c, suggestion, feedback)
                 = Min(Count(c, suggestion), Count(c, target_word))
        /\ (suggestion = target_word => feedback = AllGreen)

\* A guess holding a letter more often than the target does, one occurrence
\* marked Yellow and a later one Black.
C1_Witness ==
    /\ mode = "feedback"
    /\ pc = "done"
    /\ \E i, j \in 1..WordLen :
          /\ i < j
          /\ suggestion[i] = suggestion[j]
          /\ feedback[i] = "Y"
          /\ feedback[j] = "B"
          /\ Count(suggestion[i], target_word) = 1

\* C2: filter_words(candidates, g, get_feedback(g, t)) contains t whenever t
\* is in candidates; and in automatic play against a target of the
\* dictionary the target is in the candidate set after every turn.
C2_TargetSurvives ==
    /\ (mode = "filter" /\ pc = "filtered" /\ In(target_word, words))
          => In(target_word, possible_words)
    /\ (mode = "auto" /\ In(target_word, words))
          => In(target_word, possible_words)

\* Automatic play, two turns played and filtered, the target among several
\* candidates left.
C2_Witness ==
    /\ mode = "auto"
    /\ pc = "loop"
    /\ turn = 3
    /\ In(target_word, possible_words)
    /\ Len(possible_words) >= 2
    /\ Len(possible_words) < Len(words)

\* C3: the groups of calculate_partitions(g, candidates) are pairwise
\* disjoint, none is empty, their union is candidates, every word of the group
\* keyed p has get_feedback(g, word) = p, and no candidates give no groups.
C3_Partition ==
    (mode = "filter" /\ pc = "partitioned") =>
        /\ \A p \in DOMAIN partitions : partitions[p] # <<>>
        /\ \A p, q \in DOMAIN partitions :
              p # q => Range(partitions[p]) \cap Range(partitions[q]) = {}
        /\ UNION {Range(partitions[p]) : p \in DOMAIN partitions} = Range(possible_words)
        /\ SumSizes(partitions, DOMAIN partitions) = Len(possible_words)
        /\ \A p \in DOMAIN partitions : \A i \in DOMAIN partitions[p] :
              get_feedback(suggestion, partitions[p][i]) = p
        /\ (possible_words = <<>> => DOMAIN partitions = {})

\* Three candidates split into a group of two and a group of one.
C3_Witness ==
    /\ mode = "filter"
    /\ pc = "partitioned"
    /\ Len(possible_words) = 3
    /\ Cardinality(DOMAIN partitions) = 2

\* A step of a game loop that applied a feedback to the candidate set: one
\* that made a guess and neither won, quit nor raised.
AppliesFeedback ==
    /\ guesses' # guesses
    /\ result'.outcome \in {"running", "failed", "no_candidates"}

\* C4: the candidate set starts equal to the dictionary and never grows: a
\* turn that applies its feedback leaves exactly the words c of the previous
\* candidate set, in their order, with get_feedback(guess, c) equal to the
\* observed feedback, and no other step changes it.
C4_Shrinks ==
    /\ possible_words = words
    /\ [][/\ Len(possible_words') <= Len(possible_words)
          /\ IF AppliesFeedback
             THEN possible_words' =
                     SelectSeq(possible_words,
                               LAMBDA c : get_feedback(suggestion', c) = feedback')
             ELSE possible_words' = possible_words]_vars

\* Two turns played, each having removed some candidates and left some.
C4_Witness ==
    /\ mode \in {"auto", "interactive"}
    /\ turn = 3
    /\ Len(possible_words) >= 2
    /\ Len(possible_words) + 2 <= Len(words)

\* C5: for every non-empty candidate set, every knowledge state and every
\* turn in 1..6, choose_best_word returns, without raising, a word of the
\* dictionary or of the candidate set.
C5_SelectionTotal ==
    (mode = "select" /\ pc = "done" /\ possible_words # <<>>) =>
        /\ suggestion # IndexError
        /\ In(suggestion, words) \/ In(suggestion, possible_words)

\* C6, as claimed: on turn 1 with COURT in the dictionary choose_best_word
\* returns COURT for every candidate set, one of size 1 included.
C6_OpenerAlways ==
    (mode = "select" /\ pc = "done" /\ turn = 1 /\ In(COURT, words)) =>
        suggestion = COURT

\* C6, amended: on turn 1 with COURT in the dictionary choose_best_word
\* returns COURT for every candidate set that does not hold exactly one word
\* (the empty set and sets of size 2 included), and the single candidate for
\* a set of exactly one word.
C6_OpenerUnlessSingle ==
    (mode = "select" /\ pc = "done" /\ turn = 1 /\ In(COURT, words)) =>
        suggestion = IF Len(possible_words) = 1 THEN possible_words[1] ELSE COURT

\* Turn 1, two candidates, neither of them COURT, and COURT returned.
C6_Witness ==
    /\ mode = "select"
    /\ pc = "done"
    /\ turn = 1
    /\ In(COURT, words)
    /\ Len(possible_words) = 2
    /\ ~In(COURT, possible_words)
    /\ suggestion = COURT

\* C7: a candidate set of exactly one word makes choose_best_word return
\* that word, on any turn 1..6, for any dictionary and knowledge state.
C7_SingleCandidate ==
    (mode = "select" /\ pc = "done" /\ Len(possible_words) = 1) =>
        suggestion = possible_words[1]

\* Turn 1, COURT in the dictionary, and the single candidate, not COURT,
\* returned.
C7_Witness ==
    /\ mode = "select"
    /\ pc = "done"
    /\ turn = 1
    /\ In(COURT, words)
    /\ Len(possible_words) = 1
    /\ possible_words[1] # COURT
    /\ suggestion = possible_words[1]
    /\ known_letters # {}

\* C8: a game whose candidate set was filtered down to nothing ends in the
\* explicit "no candidates remain" outcome, in both loops, and raises no
\* unrelated error.
C8_EmptyEndsExplicitly ==
    (mode \in {"auto", "interactive"} /\ pc = "done" /\ possible_words = <<>>) =>
        result.outcome = "no_candidates"

\* C9: the loop makes at most 6 guesses, one per turn 1, 2, ...; it stops at
\* the first all-Green feedback, and otherwise after turn 6 reporting failure
\* (automatic mode returns the solving turn, or 7).  The interactive loop's
\* documented exits, the player quitting and no candidates remaining, are
\* taken as allowed.
C9_LoopBudget ==
    (mode \in {"auto", "interactive"}) =>
        /\ turn \in 1..MaxTurns
        /\ Len(guesses) <= MaxTurns
        /\ pc = "loop" => Len(guesses) = turn - 1 /\ feedback # AllGreen
        /\ pc = "done" =>
              \/ /\ result.outcome = "solved"
                 /\ feedback = AllGreen
                 /\ Len(guesses) = turn
                 /\ result.value = turn
              \/ /\ result.outcome = "failed"
                 /\ feedback # AllGreen
                 /\ turn = MaxTurns
                 /\ Len(guesses) = MaxTurns
                 /\ mode = "auto" => result.value = MaxTurns + 1
              \/ /\ mode = "interactive"
                 /\ result.outcome \in {"quit", "no_candidates"}

\* The evaluation pool of the stage choose_best_word is in, past the opening
\* move, for two or more candidates.
StagePool(possible, all_words, known, excluded) ==
    IF Len(possible) <= DistinguishThreshold
    THEN DistinguishingPool(possible, all_words)
    ELSE IF Len(possible) > ELIMINATION_THRESHOLD
    THEN EliminationPool(possible, all_words, known, excluded)
    ELSE MediumPool(possible, all_words, known, excluded)

\* C10: in every selection stage, an empty evaluation pool makes
\* choose_best_word return the first remaining candidate instead of raising.
C10_EmptyPoolFallsBack ==
    (/\ mode = "select"
     /\ pc = "done"
     /\ turn >= 2
     /\ Len(possible_words) >= 2
     /\ StagePool(possible_words, words, known_letters, excluded_letters) = <<>>) =>
        suggestion = possible_words[1]

\* A call of choose_best_word by a game loop with exactly two candidates,
\* past the opening move: the step of a turn from such a state.
TwoCandidateCall ==
    /\ mode \in {"auto", "interactive"}
    /\ pc = "loop"
    /\ turn >= 2
    /\ Len(possible_words) = 2

\* C11: with exactly two candidates and turn >= 2 choose_best_word uses the
\* two-candidate strategy, not the Distinguishing Search: it returns the
\* non-candidate word of the dictionary prefix whose feedback against the two
\* candidates differs that maximizes unexplored letters plus overlap with the
\* differing letters, or else the first candidate; never the second
\* candidate, nor a word giving both candidates the same feedback.
C11_TwoCandidateStrategy ==
    [][TwoCandidateCall =>
          /\ suggestion' = TwoWordBranch(possible_words, words,
                                         known_letters, excluded_letters)
          /\ suggestion' # possible_words[2]
          /\ \/ suggestion' = possible_words[1]
             \/ /\ ~In(suggestion', possible_words)
                /\ get_feedback(suggestion', possible_words[1])
                      # get_feedback(suggestion', possible_words[2])]_vars

\* The score the stage of choose_best_word gives a pooled word.
StageScore(word, possible, known, excluded, t) ==
    IF Len(possible) <= DistinguishThreshold
    THEN DistinguishingScore(word, possible, known, excluded)
    ELSE FinalScore(word, possible, known, excluded, t)

\* choose_best_word has scored a non-empty pool: past the opening move, two
\* or more candidates.
ScoredCall ==
    /\ mode = "select"
    /\ pc = "done"
    /\ turn >= 2
    /\ Len(possible_words) >= 2
    /\ StagePool(possible_words, words, known_letters, excluded_letters) # <<>>

\* The returned word is in the pool and no pooled word scores lower.
ReturnsLeastScore ==
    LET pool == StagePool(possible_words, words, known_letters, excluded_letters)
        sc(w) == StageScore(w, possible_words, known_letters, excluded_letters, turn)
    IN  /\ In(suggestion, pool)
        /\ \A i \in DOMAIN pool : ~ScoreLess(sc(pool[i]), sc(suggestion))

\* No pooled word before the returned one has the same score.
FirstOfTies ==
    LET pool == StagePool(possible_words, words, known_letters, excluded_letters)
        sc(w) == StageScore(w, possible_words, known_letters, excluded_letters, turn)
    IN  \A i \in DOMAIN pool :
           (pool[i] # suggestion /\ ScoreEq(sc(pool[i]), sc(suggestion)))
              => Index(pool, suggestion) < i

\* No pooled word of the same score precedes the returned one as text.
LeastTextOfTies ==
    LET pool == StagePool(possible_words, words, known_letters, excluded_letters)
        sc(w) == StageScore(w, possible_words, known_letters, excluded_letters, turn)
    IN  \A i \in DOMAIN pool :
           (pool[i] # suggestion /\ ScoreEq(sc(pool[i]), sc(suggestion)))
              => WordLess(suggestion, pool[i])

-----------------------------------------------------------------------------
(* Knowledge state of automatic play (main.py 575-583).                    *)

\* Automatic play after at least one turn: every feedback is what get_feedback
\* gives for the guess and the secret word.
CorrectFeedbackPlay ==
    /\ mode = "auto"
    /\ guesses # <<>>
    /\ feedback # None

\* C13: after any sequence of turns played against a fixed target with correct
\* feedback, every letter of known_letters occurs in the target and every
\* letter of excluded_letters is absent from it, so no letter is in both sets.
C13_KnowledgeSound ==
    CorrectFeedbackPlay =>
        /\ known_letters \subseteq Range(target_word)
        /\ excluded_letters \cap Range(target_word) = {}
        /\ known_letters \cap excluded_letters = {}

-----------------------------------------------------------------------------
(* The general case: more than 10 candidates (main.py 264-357).            *)

\* choose_best_word has returned from a call past the opening move with more
\* candidates than the Distinguishing Search takes.
GeneralCall ==
    /\ mode = "select"
    /\ pc = "done"
    /\ turn >= 2
    /\ Len(possible_words) > DistinguishThreshold

\* C14: with more than 10 candidates and turn >= 2, every word of the
\* evaluation pool is outside the candidate set, so a word choose_best_word
\* returns is not a candidate, on turns 5 and 6 too, and answer_bonus is never
\* the -1.0 or the +2.0 of a candidate answer.
C14_PoolOutsideCandidates ==
    GeneralCall =>
        LET evaluation_set == StagePool(possible_words, words, known_letters, excluded_letters)
        IN  /\ \A i \in DOMAIN evaluation_set :
                   /\ ~In(evaluation_set[i], possible_words)
                   /\ answer_bonus(evaluation_set[i], possible_words, turn) \notin {-10, 20}
            /\ suggestion # IndexError =>
                   /\ In(suggestion, evaluation_set)
                   /\ ~In(suggestion, possible_words)

\* A late turn of the general case returns a word that is not a candidate.
C14_Witness ==
    /\ GeneralCall
    /\ turn >= LATE_GAME_TURN
    /\ suggestion # IndexError
    /\ In(suggestion, words)
    /\ ~In(suggestion, possible_words)

=============================================================================
